---- MODULE Spec2Model ----
(***************************************************************************)
(* A model of src/cnc.py: the G-code parser (Program.parse, Block.parse,   *)
(* Word.parse), the execution engine (Program.run, Block.run) and the      *)
(* module-level loop over the files of the command line.                   *)
(*                                                                         *)
(* Python strings are sequences of one-character strings.  The input       *)
(* alphabet is the nine word letters, the digits, "O", "%", "(", ")",      *)
(* the blank, the newline and "a"; over this alphabet int(s), float(s)     *)
(* and s.isdigit() succeed exactly on the non-empty all-digit strings, and *)
(* a float and an int with the same digits are the same number.            *)
(* An uncaught Python exception is the value Raised.                       *)
(***************************************************************************)
EXTENDS Integers, Sequences, FiniteSets

VARIABLES
    files,      \* sys.argv[1:], one record per path
    fi,         \* index in files of the module-level for loop
    data,       \* the text handed to Program.parse
    program,    \* the Program object, NoProgram before parsing
    pc,         \* "start", "parsed", "run", "finished", "raised", "exit"
    bi,         \* Program.run: index of the Block being run
    wi,         \* Block.run: index of the Word being run
    loc,        \* Block.run: its locals tool, x, y, z
    clients,    \* one actuator call log per MachineClient created
    runs        \* number of Program.run calls on this Program object

vars == <<files, fi, data, program, pc, bi, wi, loc, clients, runs>>

(***************************************************************************)
(* Bounds of the model.                                                    *)
(***************************************************************************)
MaxWords == 3       \* words of a line over the full token palette
MaxMoveWords == 4   \* words of a line over the motion token palette
MaxLines == 4       \* lines of a program text over the line palette
MaxFiles == 3       \* paths on the command line
MaxRuns == 2        \* Program.run calls on one Program object

(***************************************************************************)
(* Strings.                                                                *)
(***************************************************************************)
Digits == {"0", "1", "2", "3", "4", "5", "6", "7", "8", "9"}

DigitVal(c) ==
    CASE c = "0" -> 0 [] c = "1" -> 1 [] c = "2" -> 2 [] c = "3" -> 3
      [] c = "4" -> 4 [] c = "5" -> 5 [] c = "6" -> 6 [] c = "7" -> 7
      [] c = "8" -> 8 [] c = "9" -> 9

\* str.isdigit()
IsDigit(s) == Len(s) > 0 /\ \A i \in 1..Len(s) : s[i] \in Digits

Tail1(s) == SubSeq(s, 2, Len(s))

Front(s) == SubSeq(s, 1, Len(s) - 1)

\* int(s) and float(s) of an all-digit string
RECURSIVE DecVal(_)
DecVal(s) ==
    IF Len(s) = 0 THEN 0
    ELSE DecVal(Front(s)) * 10 + DigitVal(s[Len(s)])

StartsWith(s, c) == Len(s) > 0 /\ s[1] = c

Raised == [ok |-> FALSE]

\* str.splitlines() over the model's alphabet
RECURSIVE SplitScan(_, _, _, _)
SplitScan(s, i, cur, acc) ==
    IF i > Len(s) THEN (IF Len(cur) > 0 THEN Append(acc, cur) ELSE acc)
    ELSE IF s[i] = "\n" THEN SplitScan(s, i + 1, <<>>, Append(acc, cur))
    ELSE SplitScan(s, i + 1, Append(cur, s[i]), acc)

SplitLines(s) == SplitScan(s, 1, <<>>, <<>>)

(***************************************************************************)
(* Word.parse                                                              *)
(***************************************************************************)
\* Priority with the tiers of G28 and G0/G1 exchanged
PriorityMoveFirst(letter, number) ==
    IF letter = "F" THEN 1
    ELSE IF letter = "S" THEN 2
    ELSE IF letter = "T" THEN 3
    ELSE IF letter = "M" /\ number = 6 THEN 4
    ELSE IF letter = "M" /\ (number = 3 \/ number = 4 \/ number = 5) THEN 5
    ELSE IF letter = "M" /\ (number = 7 \/ number = 8 \/ number = 9) THEN 6
    ELSE IF letter = "G" /\ number = 28 THEN 8
    ELSE IF letter = "G" /\ (number = 0 \/ number = 1) THEN 7
    ELSE IF letter = "M" /\ number = 30 THEN 9
    ELSE 10

Priority(letter, number) ==
    IF letter = "F" THEN 1
    ELSE IF letter = "S" THEN 2
    ELSE IF letter = "T" THEN 3
    ELSE IF letter = "M" /\ number = 6 THEN 4
    ELSE IF letter = "M" /\ (number = 3 \/ number = 4 \/ number = 5) THEN 5
    ELSE IF letter = "M" /\ (number = 7 \/ number = 8 \/ number = 9) THEN 6
    ELSE IF letter = "G" /\ number = 28 THEN 7
    ELSE IF letter = "G" /\ (number = 0 \/ number = 1) THEN 8
    ELSE IF letter = "M" /\ number = 30 THEN 9
    ELSE 10

Word(letter, number, priority) ==
    [letter |-> letter, number |-> number, priority |-> priority]

\* WordParse rejecting the letters that start no word
WordParseStrict(command) ==
    IF Len(command) = 0 THEN Raised
    ELSE LET letter == command[1]
             rest == Tail1(command)
         IN  IF letter \notin {"N", "G", "T", "S", "M", "X", "Y", "Z", "F"} THEN Raised
             ELSE IF letter = "T"
             THEN [ok |-> TRUE, word |-> Word(letter, rest, Priority(letter, rest))]
             ELSE IF ~IsDigit(rest) THEN Raised
             ELSE [ok |-> TRUE,
                   word |-> Word(letter, DecVal(rest), Priority(letter, DecVal(rest)))]

WordParse(command) ==
    IF Len(command) = 0 THEN Raised
    ELSE LET letter == command[1]
             rest == Tail1(command)
         IN  IF letter = "T"
             THEN [ok |-> TRUE, word |-> Word(letter, rest, Priority(letter, rest))]
             ELSE IF ~IsDigit(rest) THEN Raised
             ELSE [ok |-> TRUE,
                   word |-> Word(letter, DecVal(rest), Priority(letter, DecVal(rest)))]

(***************************************************************************)
(* Block.parse                                                             *)
(***************************************************************************)
letters == {"N", "G", "T", "S", "M", "X", "Y", "Z", "F"}

\* SortInsert placing a word before the words of its own priority
RECURSIVE SortInsertUnstable(_, _)
SortInsertUnstable(s, w) ==
    IF Len(s) = 0 THEN <<w>>
    ELSE IF s[Len(s)].priority < w.priority THEN Append(s, w)
    ELSE Append(SortInsertUnstable(Front(s), w), s[Len(s)])

\* list.sort(key=lambda w: w.priority): a stable sort
RECURSIVE SortInsert(_, _)
SortInsert(s, w) ==
    IF Len(s) = 0 THEN <<w>>
    ELSE IF s[Len(s)].priority <= w.priority THEN Append(s, w)
    ELSE Append(SortInsert(Front(s), w), s[Len(s)])

\* SortWords leaving the words in the order of the line
SortWordsNone(words) == words

RECURSIVE SortWords(_)
SortWords(words) ==
    IF Len(words) = 0 THEN <<>>
    ELSE SortInsert(SortWords(Front(words)), words[Len(words)])

Block(number, words) == [ok |-> TRUE, number |-> number, words |-> words]

\* the last statements of Block.parse, after the loop over the characters
BlockFinish(block_number, words, command) ==
    LET w == WordParse(command)
    IN  IF ~w.ok THEN Raised
        ELSE Block(block_number, SortWords(Append(words, w.word)))

\* the loop of Block.parse over the characters of the line
RECURSIVE BlockScan(_, _, _, _, _)
BlockScan(s, i, block_number, words, command) ==
    IF i > Len(s) THEN BlockFinish(block_number, words, command)
    ELSE LET c == s[i] IN
         IF c \in letters
         THEN IF Len(command) > 0
              THEN LET w == WordParse(command) IN
                   IF ~w.ok THEN Raised
                   ELSE IF w.word.letter = "N"
                        THEN BlockScan(s, i + 1, w.word.number, words, <<c>>)
                        ELSE BlockScan(s, i + 1, block_number, Append(words, w.word), <<c>>)
              ELSE BlockScan(s, i + 1, block_number, words, <<c>>)
         ELSE BlockScan(s, i + 1, block_number, words, Append(command, c))

BlockParse(s) == BlockScan(s, 1, -1, <<>>, <<>>)

(***************************************************************************)
(* Program.parse                                                           *)
(***************************************************************************)
\* StripComments with a comment that runs to the end of the line
RECURSIVE StripCommentsToEnd(_, _, _, _)
StripCommentsToEnd(line, i, comment, out) ==
    IF i > Len(line) THEN out
    ELSE IF line[i] = "(" THEN StripCommentsToEnd(line, i + 1, TRUE, out)
    ELSE IF ~comment THEN StripCommentsToEnd(line, i + 1, comment, Append(out, line[i]))
    ELSE StripCommentsToEnd(line, i + 1, comment, out)

\* the comment-stripping loop over the characters of one line
RECURSIVE StripComments(_, _, _, _)
StripComments(line, i, comment, out) ==
    IF i > Len(line) THEN out
    ELSE IF line[i] = "(" THEN StripComments(line, i + 1, TRUE, out)
    ELSE IF line[i] = ")" THEN StripComments(line, i + 1, FALSE, out)
    ELSE IF ~comment THEN StripComments(line, i + 1, comment, Append(out, line[i]))
    ELSE StripComments(line, i + 1, comment, out)

\* "".join(stripped_line.split())
RemoveWhitespace(s) == SelectSeq(s, LAMBDA c : c # " ")

StripLine(line) == RemoveWhitespace(StripComments(line, 1, FALSE, <<>>))

NewProgram(number, blocks) ==
    [ok |-> TRUE, number |-> number, blocks |-> blocks,
     tool |-> <<>>, x |-> 0, y |-> 0, z |-> 0]

\* the test `line.startswith("O")` of Program.parse
IsProgramNumberLine(line, stripped_line) == StartsWith(line, "O")

\* the loop of Program.parse over the lines
RECURSIVE ProgramScan(_, _, _, _, _)
ProgramScan(lines, i, program_number, blocks, program_start) ==
    IF i > Len(lines) THEN NewProgram(program_number, blocks)
    ELSE LET line == lines[i]
             stripped_line == StripLine(line)
         IN  IF Len(stripped_line) = 0
             THEN ProgramScan(lines, i + 1, program_number, blocks, program_start)
             ELSE IF StartsWith(stripped_line, "%")
             THEN ProgramScan(lines, i + 1, program_number, blocks, ~program_start)
             ELSE IF ~program_start
             THEN ProgramScan(lines, i + 1, program_number, blocks, program_start)
             ELSE IF IsProgramNumberLine(line, stripped_line)
             THEN IF IsDigit(Tail1(line))
                  THEN ProgramScan(lines, i + 1, DecVal(Tail1(line)), blocks, program_start)
                  ELSE ProgramScan(lines, i + 1, program_number, blocks, program_start)
             ELSE LET b == BlockParse(stripped_line) IN
                  IF ~b.ok THEN Raised
                  ELSE ProgramScan(lines, i + 1, program_number,
                                   Append(blocks, [number |-> b.number, words |-> b.words]),
                                   program_start)

\* ProgramParse with the comments stripped from the text, not from each line
ProgramParseWholeText(s) ==
    ProgramScan(SplitLines(StripComments(s, 1, FALSE, <<>>)), 1, -1, <<>>, FALSE)

ProgramParse(s) == ProgramScan(SplitLines(s), 1, -1, <<>>, FALSE)

NoProgram == [ok |-> FALSE]

(***************************************************************************)
(* Block.run                                                               *)
(***************************************************************************)
Call0(fn) == [fn |-> fn]
CallValue(fn, value) == [fn |-> fn, value |-> value]
CallTool(tool_name) == [fn |-> "change_tool", tool_name |-> tool_name]
CallMove(x, y, z) == [fn |-> "move", x |-> x, y |-> y, z |-> z]

HasAxis(words, axis) == \E k \in 1..Len(words) : words[k].letter = axis

\* the value an axis has after the loop `for cw in self.words`
RECURSIVE AxisAfterScan(_, _, _)
AxisAfterScan(words, axis, carried) ==
    IF Len(words) = 0 THEN carried
    ELSE IF words[Len(words)].letter = axis THEN words[Len(words)].number
    ELSE AxisAfterScan(Front(words), axis, carried)

\* RunMove taking the multi-axis branch only when all three axes are given
RunMoveAllAxes(words, st) ==
    LET move_x == HasAxis(words, "X")
        move_y == HasAxis(words, "Y")
        move_z == HasAxis(words, "Z")
        x == AxisAfterScan(words, "X", st.x)
        y == AxisAfterScan(words, "Y", st.y)
        z == AxisAfterScan(words, "Z", st.z)
    IN  [st |-> [st EXCEPT !.x = x, !.y = y, !.z = z],
         calls |-> IF move_x /\ move_y /\ move_z
                   THEN <<CallMove(x, y, z)>>
                   ELSE IF move_x THEN <<CallValue("move_x", x)>>
                   ELSE IF move_y THEN <<CallValue("move_y", y)>>
                   ELSE IF move_z THEN <<CallValue("move_z", z)>>
                   ELSE <<>>]

\* the branch of Block.run for G0 and G1
RunMove(words, st) ==
    LET move_x == HasAxis(words, "X")
        move_y == HasAxis(words, "Y")
        move_z == HasAxis(words, "Z")
        x == AxisAfterScan(words, "X", st.x)
        y == AxisAfterScan(words, "Y", st.y)
        z == AxisAfterScan(words, "Z", st.z)
    IN  [st |-> [st EXCEPT !.x = x, !.y = y, !.z = z],
         calls |-> IF (move_x /\ move_y) \/ (move_x /\ move_z) \/ (move_y /\ move_z)
                   THEN <<CallMove(x, y, z)>>
                   ELSE IF move_x THEN <<CallValue("move_x", x)>>
                   ELSE IF move_y THEN <<CallValue("move_y", y)>>
                   ELSE IF move_z THEN <<CallValue("move_z", z)>>
                   ELSE <<>>]

\* RunHome resetting the tool with the position
RunHomeClearsTool(st) ==
    [st |-> [st EXCEPT !.tool = <<>>, !.x = 0, !.y = 0, !.z = 0],
     calls |-> <<Call0("home")>>]

\* RunHome calling home() without the reset of the position
RunHomeNoReset(st) == [st |-> st, calls |-> <<Call0("home")>>]

\* the branch of Block.run for G28
RunHome(st) ==
    [st |-> [st EXCEPT !.x = 0, !.y = 0, !.z = 0], calls |-> <<Call0("home")>>]

\* RunWord changing the tool as soon as the T word runs
RunWordEager(words, w, st) ==
    IF w.letter = "S" THEN [st |-> st, calls |-> <<CallValue("set_spindle_speed", w.number)>>]
    ELSE IF w.letter = "F" THEN [st |-> st, calls |-> <<CallValue("set_feed_rate", w.number)>>]
    ELSE IF w.letter = "T"
         THEN [st |-> [st EXCEPT !.tool = w.number], calls |-> <<CallTool(w.number)>>]
    ELSE IF w.letter = "M" THEN
        IF w.number = 7 \/ w.number = 8 THEN [st |-> st, calls |-> <<Call0("coolant_on")>>]
        ELSE IF w.number = 9 THEN [st |-> st, calls |-> <<Call0("coolant_off")>>]
        ELSE [st |-> st, calls |-> <<>>]
    ELSE IF w.letter = "G" THEN
        IF w.number = 0 \/ w.number = 1 THEN RunMove(words, st)
        ELSE IF w.number = 28 THEN RunHome(st)
        ELSE [st |-> st, calls |-> <<>>]
    ELSE [st |-> st, calls |-> <<>>]

\* RunWord with the coolant call also in the branch of M3 and M4
RunWordSpindle(words, w, st) ==
    IF w.letter = "S" THEN [st |-> st, calls |-> <<CallValue("set_spindle_speed", w.number)>>]
    ELSE IF w.letter = "F" THEN [st |-> st, calls |-> <<CallValue("set_feed_rate", w.number)>>]
    ELSE IF w.letter = "T" THEN [st |-> [st EXCEPT !.tool = w.number], calls |-> <<>>]
    ELSE IF w.letter = "M" THEN
        IF w.number = 3 \/ w.number = 4 THEN [st |-> st, calls |-> <<Call0("coolant_on")>>]
        ELSE IF w.number = 6 THEN [st |-> st, calls |-> <<CallTool(st.tool)>>]
        ELSE IF w.number = 7 \/ w.number = 8 THEN [st |-> st, calls |-> <<Call0("coolant_on")>>]
        ELSE IF w.number = 9 THEN [st |-> st, calls |-> <<Call0("coolant_off")>>]
        ELSE [st |-> st, calls |-> <<>>]
    ELSE IF w.letter = "G" THEN
        IF w.number = 0 \/ w.number = 1 THEN RunMove(words, st)
        ELSE IF w.number = 28 THEN RunHome(st)
        ELSE [st |-> st, calls |-> <<>>]
    ELSE [st |-> st, calls |-> <<>>]

\* one iteration of `for w in self.words` in Block.run
RunWord(words, w, st) ==
    IF w.letter = "S" THEN [st |-> st, calls |-> <<CallValue("set_spindle_speed", w.number)>>]
    ELSE IF w.letter = "F" THEN [st |-> st, calls |-> <<CallValue("set_feed_rate", w.number)>>]
    ELSE IF w.letter = "T" THEN [st |-> [st EXCEPT !.tool = w.number], calls |-> <<>>]
    ELSE IF w.letter = "M" THEN
        IF w.number = 6 THEN [st |-> st, calls |-> <<CallTool(st.tool)>>]
        ELSE IF w.number = 7 \/ w.number = 8 THEN [st |-> st, calls |-> <<Call0("coolant_on")>>]
        ELSE IF w.number = 9 THEN [st |-> st, calls |-> <<Call0("coolant_off")>>]
        ELSE [st |-> st, calls |-> <<>>]
    ELSE IF w.letter = "G" THEN
        IF w.number = 0 \/ w.number = 1 THEN RunMove(words, st)
        ELSE IF w.number = 28 THEN RunHome(st)
        ELSE [st |-> st, calls |-> <<>>]
    ELSE [st |-> st, calls |-> <<>>]

\* the first n iterations of `for w in self.words`, from the arguments st
RECURSIVE RunWords(_, _, _)
RunWords(words, n, st) ==
    IF n = 0 THEN [st |-> st, calls |-> <<>>]
    ELSE LET r == RunWords(words, n - 1, st)
             q == RunWord(words, words[n], r.st)
         IN  [st |-> q.st, calls |-> r.calls \o q.calls]

\* Block.run: the returned tuple and the actuator calls made
BlockRun(words, st) == RunWords(words, Len(words), st)

Carried(p) == [tool |-> p.tool, x |-> p.x, y |-> p.y, z |-> p.z]

\* the first n iterations of `for b in self.blocks` in Program.run, from the
\* state st of the Program object
RECURSIVE ProgramRun(_, _, _)
ProgramRun(blocks, n, st) ==
    IF n = 0 THEN [st |-> st, calls |-> <<>>]
    ELSE LET r == ProgramRun(blocks, n - 1, st)
             q == BlockRun(blocks[n].words, r.st)
         IN  [st |-> q.st, calls |-> r.calls \o q.calls]

(***************************************************************************)
(* Inputs.                                                                 *)
(***************************************************************************)
RECURSIVE Flatten(_)
Flatten(ss) == IF Len(ss) = 0 THEN <<>> ELSE Flatten(Front(ss)) \o ss[Len(ss)]

RECURSIVE JoinLines(_)
JoinLines(ls) ==
    IF Len(ls) = 0 THEN <<>>
    ELSE IF Len(ls) = 1 THEN ls[1]
    ELSE JoinLines(Front(ls)) \o <<"\n">> \o ls[Len(ls)]

SeqsUpTo(S, lo, hi) == UNION {[1..k -> S] : k \in lo..hi}

FullPalette ==
    { <<"F", "2">>, <<"S", "3">>, <<"T", "1">>, <<"M", "6">>, <<"M", "3">>,
      <<"M", "7">>, <<"G", "2", "8">>, <<"G", "1">>, <<"M", "3", "0">>,
      <<"G", "1", "7">>, <<"X", "4">>, <<"Y", "5">>, <<"Z", "6">>, <<"N", "9">> }

MotionPalette ==
    { <<"G", "2", "8">>, <<"G", "0">>, <<"X", "4">>, <<"Y", "5">>, <<"Z", "6">>,
      <<"F", "2">> }

\* words outside the modelled set, among modelled ones
UnknownPalette ==
    { <<"G", "9", "9">>, <<"M", "9", "9">>, <<"a", "5">>, <<"G", "1">>,
      <<"X", "4">>, <<"T", "1">>, <<"M", "6">> }

\* the M and G words of Block.run that are not in the other palettes
AuxPalette ==
    { <<"M", "4">>, <<"M", "5">>, <<"M", "8">>, <<"M", "9">>, <<"G", "2", "1">>,
      <<"G", "4", "0">>, <<"G", "4", "9">>, <<"G", "8", "0">>, <<"G", "9", "1">>,
      <<"G", "9", "4">> }

\* lines with an unclosed comment, among toggle, directive and block lines
CommentPalette ==
    { <<"%">>, <<"(", "a">>, <<"M", "6", "(", "a">>, <<"O", "1", "2">>, <<"T", "1">> }

\* block lines to decorate, and the empty line
BaseLines ==
    { <<>>, <<"G", "1", "X", "4", "Y", "5">>, <<"N", "9", "T", "1", "M", "6">> }

\* whitespace and comments to insert in a line
Insertions ==
    { <<" ">>, <<" ", " ">>, <<"(", ")">>, <<"(", "a", ")">>, <<"(", "G", "1", ")">>,
      <<"(", " ", "%", ")">>, <<" ", "(", "X", "9", ")", " ">> }

\* the line with the insertion put after its first pos characters
Insert(line, pos, ins) == SubSeq(line, 1, pos) \o ins \o SubSeq(line, pos + 1, Len(line))

PreLine == <<"T", "3", "G", "1", "X", "7", "Y", "8", "Z", "9">>

LinePalette ==
    { <<"%">>,
      <<"O", "1", "2">>,
      <<" ", "O", "1", "2">>,
      <<"O", "a">>,
      <<"M", "6">>,
      <<"T", "1">>,
      <<"N", "a", "G", "1", "X", "4">>,
      <<"G", "1", " ", "X", "4", "(", "a", ")", "Y", "5">> }

WordLineTexts ==
    { JoinLines(<< <<"%">>, Flatten(ts) >>) : ts \in SeqsUpTo(FullPalette, 1, MaxWords) }

MoveLineTexts ==
    { JoinLines(<< <<"%">>, PreLine, Flatten(ts) >>) :
        ts \in SeqsUpTo(MotionPalette, 1, MaxMoveWords) }

PaletteTexts == { JoinLines(ls) : ls \in SeqsUpTo(LinePalette, 0, MaxLines) }

UnknownLineTexts ==
    { JoinLines(<< <<"%">>, Flatten(ts) >>) : ts \in SeqsUpTo(UnknownPalette, 1, MaxWords) }

AuxLineTexts ==
    { JoinLines(<< <<"%">>, t \o <<"S", "3">> >>) : t \in AuxPalette }

CommentTexts == { JoinLines(ls) : ls \in SeqsUpTo(CommentPalette, 1, MaxLines) }

DecoratedTexts ==
    { JoinLines(<< <<"%">>, Insert(b[1], b[2], ins) >>) :
        b \in {c \in BaseLines \X (0..6) : c[2] <= Len(c[1])}, ins \in Insertions }

ProgramTexts ==
    WordLineTexts \cup MoveLineTexts \cup PaletteTexts \cup UnknownLineTexts
        \cup AuxLineTexts \cup CommentTexts \cup DecoratedTexts

Unreadable == [readable |-> FALSE, content |-> <<>>]

File(content) == [readable |-> TRUE, content |-> content]

FilePalette ==
    { Unreadable,
      File(JoinLines(<< <<"%">>, <<"M", "6", "T", "1">>, <<"G", "1", "X", "4">> >>)),
      File(JoinLines(<< <<"%">>, <<"G", "1", "X", "a">> >>)),
      File(JoinLines(<< <<"%">>, <<"M", "6">>, <<"G", "2", "8">> >>)) }

(***************************************************************************)
(* The state machine.                                                      *)
(***************************************************************************)
InitCommon ==
    /\ program = NoProgram
    /\ pc = "start"
    /\ bi = 1
    /\ wi = 1
    /\ loc = [tool |-> <<>>, x |-> 0, y |-> 0, z |-> 0]
    /\ clients = <<>>
    /\ runs = 0

\* a caller holding one program text
Init ==
    /\ files = <<>>
    /\ fi = 1
    /\ data \in ProgramTexts
    /\ InitCommon

\* the module-level script with its command line
InitMain ==
    /\ files \in SeqsUpTo(FilePalette, 1, MaxFiles)
    /\ fi = 1
    /\ data = <<>>
    /\ InitCommon

\* program = Program.parse(data)
Parse ==
    /\ pc = "start"
    /\ Len(files) = 0
    /\ program' = ProgramParse(data)
    /\ pc' = IF program'.ok THEN "parsed" ELSE "raised"
    /\ UNCHANGED <<files, fi, data, bi, wi, loc, clients, runs>>

\* program = Program.parse_from_file(file)
ParseFromFile ==
    /\ pc = "start"
    /\ fi <= Len(files)
    /\ IF files[fi].readable
       THEN /\ data' = files[fi].content
            /\ program' = ProgramParse(files[fi].content)
            /\ pc' = IF program'.ok THEN "parsed" ELSE "raised"
       ELSE /\ pc' = "raised"
            /\ UNCHANGED <<data, program>>
    /\ runs' = 0
    /\ UNCHANGED <<files, fi, bi, wi, loc, clients>>

\* the call program.run(client) with a new MachineClient
EnterRun ==
    /\ clients' = Append(clients, <<>>)
    /\ runs' = runs + 1
    /\ bi' = 1
    /\ wi' = 1
    /\ loc' = Carried(program)
    /\ pc' = "run"
    /\ UNCHANGED <<files, fi, data, program>>

\* the first run of a parsed Program
StartRun ==
    /\ pc = "parsed"
    /\ EnterRun

\* a caller runs the same Program object again, with a new MachineClient
Rerun ==
    /\ pc = "finished"
    /\ runs < MaxRuns
    /\ EnterRun

\* Block.run executes its next word
ExecWord ==
    /\ pc = "run"
    /\ bi <= Len(program.blocks)
    /\ wi <= Len(program.blocks[bi].words)
    /\ LET words == program.blocks[bi].words
           r == RunWord(words, words[wi], loc)
       IN  /\ loc' = r.st
           /\ clients' = [clients EXCEPT ![Len(clients)] = @ \o r.calls]
    /\ wi' = wi + 1
    /\ UNCHANGED <<files, fi, data, program, pc, bi, runs>>

\* BlockReturn stepping over the Block that follows
BlockReturnSkip ==
    /\ pc = "run"
    /\ bi <= Len(program.blocks)
    /\ wi > Len(program.blocks[bi].words)
    /\ program' = [program EXCEPT !.tool = loc.tool, !.x = loc.x, !.y = loc.y, !.z = loc.z]
    /\ bi' = bi + 2
    /\ wi' = 1
    /\ UNCHANGED <<files, fi, data, pc, loc, clients, runs>>

\* Block.run returns and Program.run stores the tuple in self
BlockReturn ==
    /\ pc = "run"
    /\ bi <= Len(program.blocks)
    /\ wi > Len(program.blocks[bi].words)
    /\ program' = [program EXCEPT !.tool = loc.tool, !.x = loc.x, !.y = loc.y, !.z = loc.z]
    /\ bi' = bi + 1
    /\ wi' = 1
    /\ UNCHANGED <<files, fi, data, pc, loc, clients, runs>>

\* Program.run returns after the last Block
RunReturn ==
    /\ pc = "run"
    /\ bi > Len(program.blocks)
    /\ pc' = "finished"
    /\ UNCHANGED <<files, fi, data, program, bi, wi, loc, clients, runs>>

\* the module-level for loop takes the next file, or ends
NextFile ==
    /\ pc = "finished"
    /\ Len(files) > 0
    /\ fi' = fi + 1
    /\ pc' = IF fi + 1 <= Len(files) THEN "start" ELSE "exit"
    /\ UNCHANGED <<files, data, program, bi, wi, loc, clients, runs>>

(***************************************************************************)
(* Vocabulary of the properties.                                           *)
(***************************************************************************)
InRun == pc = "run" /\ bi <= Len(program.blocks)

CurWords == program.blocks[bi].words

\* this step is Block.run executing the word at wi
WordStep == InRun /\ wi <= Len(CurWords) /\ wi' = wi + 1

CurLog == clients[Len(clients)]

\* the actuator calls made by this step
NewCalls ==
    SubSeq(clients'[Len(clients)], Len(CurLog) + 1, Len(clients'[Len(clients)]))

IsMoveWord(w) == w.letter = "G" /\ (w.number = 0 \/ w.number = 1)

IsHomeWord(w) == w.letter = "G" /\ w.number = 28

IsToolChange(w) == w.letter = "M" /\ w.number = 6

IsMotionCall(c) == c.fn \in {"move", "move_x", "move_y", "move_z"}

Axes == {"X", "Y", "Z"}

\* the axes that have a word in the block
AxesOf(words) == {a \in Axes : \E k \in 1..Len(words) : words[k].letter = a}

\* the literal of the last word of the block with this letter
LastLiteral(words, l) ==
    LET K == {k \in 1..Len(words) : words[k].letter = l}
    IN  words[CHOOSE k \in K : \A j \in K : j <= k].number

AxisOfState(st, a) == IF a = "X" THEN st.x ELSE IF a = "Y" THEN st.y ELSE st.z

\* the value an axis has after a G0/G1 of this block
Target(words, st, a) ==
    IF a \in AxesOf(words) THEN LastLiteral(words, a) ELSE AxisOfState(st, a)

Count(s, P(_)) == Cardinality({k \in 1..Len(s) : P(s[k])})

\* the tokens of a stripped line: a token starts at the first character and
\* at every word letter
TokenStarts(s) == {i \in 1..Len(s) : i = 1 \/ s[i] \in letters}

TokenAt(s, i) ==
    LET after == {j \in TokenStarts(s) : j > i}
        end == IF after = {} THEN Len(s)
               ELSE (CHOOSE j \in after : \A k \in after : j <= k) - 1
    IN  SubSeq(s, i, end)

Tokens(s) ==
    [k \in 1..Cardinality(TokenStarts(s)) |->
        TokenAt(s, CHOOSE i \in TokenStarts(s) :
                     Cardinality({j \in TokenStarts(s) : j < i}) = k - 1)]

\* a program text of one "%" line followed by one line of words
OneBlockText ==
    /\ Len(SplitLines(data)) = 2
    /\ SplitLines(data)[1] = <<"%">>
    /\ Len(StripLine(SplitLines(data)[2])) > 0
    /\ StripLine(SplitLines(data)[2])[1] \in letters

SourceLine == StripLine(SplitLines(data)[2])

Parsed == pc = "parsed" /\ program.ok

(***************************************************************************)
(* C1: running the same Program object again, with a new actuator, makes   *)
(* the same actuator calls as its first run.                               *)
(***************************************************************************)
C1_RunsIdentical ==
    pc = "finished" => \A r \in 1..Len(clients) : clients[r] = clients[1]

(***************************************************************************)
(* C2: no Block produced by Block.parse holds a word with letter N.        *)
(***************************************************************************)
C2_NoNWord ==
    Parsed => \A b \in 1..Len(program.blocks) :
                 \A k \in 1..Len(program.blocks[b].words) :
                    program.blocks[b].words[k].letter # "N"

(***************************************************************************)
(* C3: the words of a parsed Block are in non-decreasing priority, the     *)
(* priority of each is the one of the fixed table, and the words of each   *)
(* priority stand in the order of their tokens in the line.                *)
(***************************************************************************)
PriorityTable(w) ==
    CASE w.letter = "F" -> 1
      [] w.letter = "S" -> 2
      [] w.letter = "T" -> 3
      [] w.letter = "M" /\ w.number = 6 -> 4
      [] w.letter = "M" /\ w.number \in {3, 4, 5} -> 5
      [] w.letter = "M" /\ w.number \in {7, 8, 9} -> 6
      [] w.letter = "G" /\ w.number = 28 -> 7
      [] w.letter = "G" /\ w.number \in {0, 1} -> 8
      [] w.letter = "M" /\ w.number = 30 -> 9
      [] OTHER -> 10

\* the words of the tokens of a line, in token order
TokenWords(s) == [k \in 1..Len(Tokens(s)) |-> WordParse(Tokens(s)[k]).word]

OfPriority(ws, p) == SelectSeq(ws, LAMBDA w : w.priority = p /\ w.letter # "N")

C3_PriorityOrder ==
    (Parsed /\ OneBlockText) =>
        LET ws == program.blocks[1].words
        IN  /\ \A k \in 1..Len(ws) : ws[k].priority = PriorityTable(ws[k])
            /\ \A k \in 1..(Len(ws) - 1) : ws[k].priority <= ws[k + 1].priority
            /\ \A p \in 1..10 : OfPriority(ws, p) = OfPriority(TokenWords(SourceLine), p)

\* a line whose tokens are not in priority order and hold two different
\* words of one priority
C3_Witness ==
    /\ Parsed
    /\ OneBlockText
    /\ LET ws == program.blocks[1].words
           ts == TokenWords(SourceLine)
       IN  /\ \E k \in 1..(Len(ts) - 1) : ts[k].priority > ts[k + 1].priority
           /\ \E k \in 1..(Len(ws) - 1) :
                 ws[k].priority = ws[k + 1].priority /\ ws[k].letter # ws[k + 1].letter

(***************************************************************************)
(* C4: a G0 or G1 word moves exactly the axes that have a word in its      *)
(* Block: move(x, y, z) for two or more, the single-axis call for one,     *)
(* nothing for none; an axis without a word keeps its carried value.       *)
(***************************************************************************)
MoveEffect ==
    LET A == AxesOf(CurWords)
        x == Target(CurWords, loc, "X")
        y == Target(CurWords, loc, "Y")
        z == Target(CurWords, loc, "Z")
    IN  /\ loc' = [loc EXCEPT !.x = x, !.y = y, !.z = z]
        /\ Cardinality(A) >= 2 => NewCalls = <<CallMove(x, y, z)>>
        /\ A = {"X"} => NewCalls = <<CallValue("move_x", x)>>
        /\ A = {"Y"} => NewCalls = <<CallValue("move_y", y)>>
        /\ A = {"Z"} => NewCalls = <<CallValue("move_z", z)>>
        /\ A = {} => NewCalls = <<>> /\ loc' = loc

C4_MoveAxes == [][(WordStep /\ IsMoveWord(CurWords[wi])) => MoveEffect]_vars

\* move(4, 5, 9): X and Y from the block, Z carried from the block before
C4_Witness ==
    /\ pc = "run"
    /\ bi = 2
    /\ Len(CurLog) > 0
    /\ CurLog[Len(CurLog)] = CallMove(4, 5, 9)
    /\ program.z = 9

(***************************************************************************)
(* C5: in a Block with G28 and G0/G1, every home() call is made and the    *)
(* position is reset before the first motion call, so that an axis with no *)
(* word in the Block is 0 when the G0/G1 runs.                             *)
(***************************************************************************)
HomeBeforeMove ==
    LET h == Count(CurWords, IsHomeWord)
        done == Count(SubSeq(CurWords, 1, wi - 1), IsMoveWord)
        k == IF AxesOf(CurWords) = {} THEN 0 ELSE done
    IN  /\ Len(CurLog) >= h + k
        /\ \A j \in 1..h : CurLog[Len(CurLog) - k - j + 1] = Call0("home")
        /\ \A a \in Axes \ AxesOf(CurWords) :
              AxisOfState(loc, a) = 0 /\ AxisOfState(loc', a) = 0
        /\ \A c \in 1..Len(NewCalls) :
              NewCalls[c].fn = "move" =>
                 /\ "X" \notin AxesOf(CurWords) => NewCalls[c].x = 0
                 /\ "Y" \notin AxesOf(CurWords) => NewCalls[c].y = 0
                 /\ "Z" \notin AxesOf(CurWords) => NewCalls[c].z = 0

C5_HomeFirst ==
    [][(WordStep /\ IsMoveWord(CurWords[wi]) /\ Count(CurWords, IsHomeWord) > 0)
          => HomeBeforeMove]_vars

\* the line "G0..G28.." after a block that left Z = 9: home(), move(4, 5, 0)
C5_Witness ==
    /\ pc = "run"
    /\ bi = 2
    /\ program.z = 9
    /\ Len(SplitLines(data)) = 3
    /\ SubSeq(SplitLines(data)[3], 1, 2) = <<"G", "0">>
    /\ Len(CurLog) >= 2
    /\ CurLog[Len(CurLog) - 1] = Call0("home")
    /\ CurLog[Len(CurLog)] = CallMove(4, 5, 0)

(***************************************************************************)
(* C6: a T word makes no call and stages its identifier; change_tool is    *)
(* called once per executed M6 and never otherwise, with the identifier    *)
(* staged last: the T of the same Block, else the last T of an earlier     *)
(* Block of the run, else "" in the first run of a Program.                *)
(***************************************************************************)
HasTool(words) == \E k \in 1..Len(words) : words[k].letter = "T"

\* the Blocks before block b that hold a T word
ToolBlocksBefore(b) == {j \in 1..(b - 1) : HasTool(program.blocks[j].words)}

StagedTool(b) ==
    IF HasTool(program.blocks[b].words) THEN LastLiteral(program.blocks[b].words, "T")
    ELSE LET J == ToolBlocksBefore(b)
         IN  LastLiteral(program.blocks[CHOOSE j \in J : \A i \in J : i <= j].words, "T")

\* the M6 words executed so far by the current run
RECURSIVE ToolChangesIn(_)
ToolChangesIn(b) ==
    IF b = 0 THEN 0 ELSE ToolChangesIn(b - 1) + Count(program.blocks[b].words, IsToolChange)

ExecutedToolChanges ==
    IF pc = "run" /\ bi <= Len(program.blocks)
    THEN ToolChangesIn(bi - 1) + Count(SubSeq(CurWords, 1, wi - 1), IsToolChange)
    ELSE ToolChangesIn(Len(program.blocks))

IsToolCall(c) == c.fn = "change_tool"

ToolCallCount ==
    pc \in {"run", "finished"} => Count(CurLog, IsToolCall) = ExecutedToolChanges

C6_StagedTool ==
    [][/\ ToolCallCount'
       /\ (WordStep /\ CurWords[wi].letter = "T") =>
             NewCalls = <<>> /\ loc'.tool = CurWords[wi].number
       /\ (WordStep /\ IsToolChange(CurWords[wi])) =>
             /\ Len(NewCalls) = 1
             /\ NewCalls[1].fn = "change_tool"
             /\ (HasTool(CurWords) \/ ToolBlocksBefore(bi) # {}) =>
                   NewCalls[1].tool_name = StagedTool(bi)
             /\ (~HasTool(CurWords) /\ ToolBlocksBefore(bi) = {} /\ runs = 1) =>
                   NewCalls[1].tool_name = <<>>]_vars

\* the line "M6T1": change_tool("1") although M6 stands before T1
C6_Witness ==
    /\ pc = "finished"
    /\ runs = 1
    /\ OneBlockText
    /\ SourceLine = <<"M", "6", "T", "1">>
    /\ clients[1] = <<CallTool(<<"1">>)>>

(***************************************************************************)
(* Vocabulary of the properties on Program.parse.                          *)
(***************************************************************************)
Lines == SplitLines(data)

Stripped(i) == StripLine(Lines[i])

IsToggleLine(i) == StartsWith(Stripped(i), "%")

\* the line is inside the program region: an odd number of "%" lines precede
Active(i) == Cardinality({j \in 1..(i - 1) : IsToggleLine(j)}) % 2 = 1

\* a program-number directive: the stripped content starts with the letter O
IsDirective(i) == StartsWith(Stripped(i), "O")

\* the lines that stand for a Block
BlockLines ==
    {i \in 1..Len(Lines) :
        Len(Stripped(i)) > 0 /\ ~IsToggleLine(i) /\ ~IsDirective(i) /\ Active(i)}

ActiveDirectives == {i \in 1..Len(Lines) : IsDirective(i) /\ Active(i)}

\* the program number the directives of the text stand for
DirectiveNumber ==
    LET V == {i \in ActiveDirectives : IsDigit(Tail1(Stripped(i)))}
    IN  IF V = {} THEN -1
        ELSE DecVal(Tail1(Stripped(CHOOSE i \in V : \A j \in V : j <= i)))

HasWordOf(b, l) == \E k \in 1..Len(b.words) : b.words[k].letter = l

(***************************************************************************)
(* C7: the Blocks of the parsed Program are, in order, one for each line   *)
(* that is non-empty after stripping, is no "%" line and no O directive,   *)
(* and follows an odd number of "%" lines; without an O directive the      *)
(* program number is -1.                                                   *)
(***************************************************************************)
C7_ToggleRegion ==
    (pc # "start" /\ program.ok) =>
        /\ Len(program.blocks) = Cardinality(BlockLines)
        /\ \A i \in BlockLines :
              LET b == Cardinality({j \in BlockLines : j <= i})
                  r == BlockParse(Stripped(i))
              IN  b <= Len(program.blocks)
                  /\ program.blocks[b] = [number |-> r.number, words |-> r.words]
        /\ ActiveDirectives = {} => program.number = -1

(***************************************************************************)
(* C8: a line of the program region whose stripped content starts with O   *)
(* adds no Block and sets the program number to the digits that follow;    *)
(* other remainders leave the program number as it is.                     *)
(***************************************************************************)
C8_ProgramNumber ==
    (pc # "start" /\ program.ok) =>
        /\ program.number = DirectiveNumber
        /\ \A b \in 1..Len(program.blocks) : ~HasWordOf(program.blocks[b], "O")

(***************************************************************************)
(* C9: a text whose only malformed literals are those of N words is parsed *)
(* to a Program; the Block of such a line has the identifier -1.           *)
(***************************************************************************)
\* every word of every block line other than the N words has a valid literal
OnlyNMalformed ==
    \A i \in BlockLines :
        \A k \in 1..Len(Tokens(Stripped(i))) :
            LET t == Tokens(Stripped(i))[k]
            IN  t[1] # "N" => WordParse(t).ok

C9_BadBlockNumber == (pc # "start" /\ OnlyNMalformed) => program.ok

(***************************************************************************)
(* C10: when the script ends, every readable file with a well-formed       *)
(* program has been run, each with its own actuator, whatever happened to  *)
(* the other files.                                                        *)
(***************************************************************************)
GoodFiles == {i \in 1..Len(files) : files[i].readable /\ ProgramParse(files[i].content).ok}

C10_FailureIsLocal == pc \in {"raised", "exit"} => Len(clients) = Cardinality(GoodFiles)

(***************************************************************************)
(* Vocabulary of the properties on unmodelled words.                       *)
(***************************************************************************)
IsModelled(w) ==
    \/ w.letter \in {"N", "T", "S", "X", "Y", "Z", "F"}
    \/ w.letter = "M" /\ w.number \in {3, 4, 5, 6, 7, 8, 9, 30}
    \/ w.letter = "G" /\ w.number \in {0, 1, 17, 21, 28, 40, 49, 80, 91, 94}

KnownWords(ws) == SelectSeq(ws, IsModelled)

\* the lines of the program region that Program.parse looks into
RegionLines ==
    {i \in 1..Len(Lines) : Len(Stripped(i)) > 0 /\ ~IsToggleLine(i) /\ Active(i)}

\* the line is made of pairs of one non-digit character and a number
PairsWellFormed(s) ==
    \A i \in 1..Len(s) : s[i] \notin Digits => (i < Len(s) /\ s[i + 1] \in Digits)

\* no character other than the word letters and the digits after the first
UnknownOnlyFirst(s) == \A i \in 2..Len(s) : s[i] \in letters \cup Digits

\* an unmodelled word makes no call and changes nothing, the others act as
\* they do without it
UnknownInert ==
    InRun => BlockRun(CurWords, Carried(program))
                = BlockRun(KnownWords(CurWords), Carried(program))

(***************************************************************************)
(* C11 as claimed: a pair outside the modelled set, at any place of a      *)
(* line, is not fatal to the parse, makes no call and leaves the effect of *)
(* the other words as it is.                                               *)
(***************************************************************************)
C11_UnknownIgnored ==
    /\ (pc \in {"parsed", "raised"}
          /\ \A i \in RegionLines : PairsWellFormed(Stripped(i)))
          => program.ok
    /\ UnknownInert

(***************************************************************************)
(* C11 as amended: an unmodelled G or M number at any place of a line, and *)
(* a word with a letter outside the nine that is the first token of its    *)
(* line, is not fatal to the parse, makes no call and leaves the effect of *)
(* the other words as it is.                                               *)
(***************************************************************************)
C11_UnknownFirstOrNumber ==
    /\ (pc \in {"parsed", "raised"}
          /\ \A i \in RegionLines :
                PairsWellFormed(Stripped(i)) /\ UnknownOnlyFirst(Stripped(i)))
          => program.ok
    /\ UnknownInert

\* the line "a5G99M6" has run: change_tool("") is its only call
C11_Witness ==
    /\ pc = "finished"
    /\ runs = 1
    /\ Lines = << <<"%">>, <<"a", "5", "G", "9", "9", "M", "6">> >>
    /\ clients[1] = <<CallTool(<<>>)>>

(***************************************************************************)
(* C12: the carried tool changes only when a T word runs; the carried      *)
(* position changes only when a G0/G1 word runs, and then only on the axes *)
(* with a word in the Block, or when G28 runs, to 0, 0, 0.  Every other    *)
(* word and every other step of a run leaves the machine state as it is.   *)
(***************************************************************************)
Position(st) == <<st.x, st.y, st.z>>

WordFrame ==
    LET w == CurWords[wi]
    IN  /\ loc'.tool # loc.tool => w.letter = "T"
        /\ Position(loc') # Position(loc) => (IsMoveWord(w) \/ IsHomeWord(w))
        /\ IsMoveWord(w) =>
              \A a \in Axes \ AxesOf(CurWords) : AxisOfState(loc', a) = AxisOfState(loc, a)
        /\ IsHomeWord(w) => Position(loc') = <<0, 0, 0>>
        /\ w.letter \in {"S", "F", "M", "X", "Y", "Z"} => loc' = loc
        /\ program' = program

C12_Frame ==
    [][/\ WordStep => WordFrame
       /\ (pc = "run" /\ ~WordStep) => loc' = loc
       /\ (pc = "run" /\ bi' # bi) => Carried(program') = loc]_vars

\* G28 has run in the second block: position 0, 0, 0 from 7, 8, 9, tool kept
C12_Witness ==
    /\ InRun
    /\ bi = 2
    /\ wi > 1
    /\ IsHomeWord(CurWords[wi - 1])
    /\ Carried(program) = [tool |-> <<"3">>, x |-> 7, y |-> 8, z |-> 9]
    /\ loc = [tool |-> <<"3">>, x |-> 0, y |-> 0, z |-> 0]

(***************************************************************************)
(* C13: M3, M4, M5, M30, G17, G21, G40, G49, G80, G91 and G94 make no      *)
(* call and raise no error; S, F, M6, M7, M8, M9, G28 and G0/G1 make their *)
(* own call, no word makes more than one, and no other word makes any.     *)
(***************************************************************************)
IsInert(w) ==
    \/ w.letter = "M" /\ w.number \in {3, 4, 5, 30}
    \/ w.letter = "G" /\ w.number \in {17, 21, 40, 49, 80, 91, 94}

WordCalls ==
    LET w == CurWords[wi]
    IN  /\ Len(NewCalls) <= 1
        /\ pc' = "run"
        /\ IsInert(w) => NewCalls = <<>>
        /\ w.letter = "S" => NewCalls = <<CallValue("set_spindle_speed", w.number)>>
        /\ w.letter = "F" => NewCalls = <<CallValue("set_feed_rate", w.number)>>
        /\ IsToolChange(w) => Len(NewCalls) = 1 /\ NewCalls[1].fn = "change_tool"
        /\ (w.letter = "M" /\ w.number \in {7, 8}) => NewCalls = <<Call0("coolant_on")>>
        /\ (w.letter = "M" /\ w.number = 9) => NewCalls = <<Call0("coolant_off")>>
        /\ IsHomeWord(w) => NewCalls = <<Call0("home")>>
        /\ IsMoveWord(w) => \A c \in 1..Len(NewCalls) : IsMotionCall(NewCalls[c])
        /\ ~(w.letter \in {"S", "F"} \/ IsToolChange(w) \/ IsHomeWord(w) \/ IsMoveWord(w)
               \/ (w.letter = "M" /\ w.number \in {7, 8, 9}))
              => NewCalls = <<>>

C13_CallsPerWord == [][WordStep => WordCalls]_vars

\* the line "M5S3" has run: set_spindle_speed(3) is its only call
C13_Witness ==
    /\ pc = "finished"
    /\ runs = 1
    /\ Lines = << <<"%">>, <<"M", "5", "S", "3">> >>
    /\ clients[1] = <<CallValue("set_spindle_speed", 3)>>

(***************************************************************************)
(* C14: Program.run runs every Block once, in program order, each from the *)
(* state the Block before it returned, and returns after the last one; the *)
(* calls of the run are those of its Blocks, in block order.               *)
(***************************************************************************)
\* the state of the Program object when its r-th run starts
RECURSIVE StartOfRun(_)
StartOfRun(r) ==
    IF r = 1 THEN [tool |-> <<>>, x |-> 0, y |-> 0, z |-> 0]
    ELSE ProgramRun(program.blocks, Len(program.blocks), StartOfRun(r - 1)).st

C14_BlocksInOrder ==
    pc \in {"run", "finished"} =>
        /\ bi \in 1..(Len(program.blocks) + 1)
        /\ LET done == ProgramRun(program.blocks, bi - 1, StartOfRun(runs))
           IN  /\ Carried(program) = done.st
               /\ pc = "finished" => bi = Len(program.blocks) + 1
               /\ bi > Len(program.blocks) => CurLog = done.calls
               /\ InRun =>
                     LET cur == RunWords(CurWords, wi - 1, done.st)
                     IN  loc = cur.st /\ CurLog = done.calls \o cur.calls

\* a first run of two Blocks has returned: the calls of the first Block,
\* then those of the second
C14_Witness ==
    /\ pc = "finished"
    /\ runs = 1
    /\ Len(program.blocks) = 2
    /\ CurLog = <<CallMove(7, 8, 9), Call0("home"), CallMove(4, 5, 0)>>

(***************************************************************************)
(* C15: among the calls of one Block, every set_feed_rate,                 *)
(* set_spindle_speed, change_tool, coolant_on and coolant_off call comes   *)
(* before the home() calls, and these before the motion calls.             *)
(***************************************************************************)
\* the calls the Block being run has made so far
BlockLog ==
    LET n == Len(RunWords(CurWords, wi - 1, Carried(program)).calls)
    IN  SubSeq(CurLog, Len(CurLog) - n + 1, Len(CurLog))

CallRank(c) == IF IsMotionCall(c) THEN 3 ELSE IF c.fn = "home" THEN 2 ELSE 1

C15_SettingsBeforeMotion ==
    InRun => \A i, j \in 1..Len(BlockLog) :
                 i < j => CallRank(BlockLog[i]) <= CallRank(BlockLog[j])

\* the line "G0X4G28F2" has run: set_feed_rate(2), home(), move_x(4)
C15_Witness ==
    /\ InRun
    /\ bi = 2
    /\ Len(Lines) = 3
    /\ Lines[3] = <<"G", "0", "X", "4", "G", "2", "8", "F", "2">>
    /\ BlockLog = <<CallValue("set_feed_rate", 2), Call0("home"), CallValue("move_x", 4)>>

(***************************************************************************)
(* C17: in the first run of a Program the carried position is, after every *)
(* word, the position the actuator calls made so far lead to from 0, 0, 0. *)
(***************************************************************************)
\* the position an actuator is in after a call
AfterCall(pos, c) ==
    IF c.fn = "home" THEN <<0, 0, 0>>
    ELSE IF c.fn = "move" THEN <<c.x, c.y, c.z>>
    ELSE IF c.fn = "move_x" THEN <<c.value, pos[2], pos[3]>>
    ELSE IF c.fn = "move_y" THEN <<pos[1], c.value, pos[3]>>
    ELSE IF c.fn = "move_z" THEN <<pos[1], pos[2], c.value>>
    ELSE pos

RECURSIVE ImpliedPosition(_)
ImpliedPosition(log) ==
    IF Len(log) = 0 THEN <<0, 0, 0>>
    ELSE AfterCall(ImpliedPosition(Front(log)), log[Len(log)])

C17_PositionTracksCalls ==
    (pc \in {"run", "finished"} /\ runs = 1) => Position(loc) = ImpliedPosition(CurLog)

\* after move(7, 8, 9), home() and move_x(4) the carried position is 4, 0, 0
C17_Witness ==
    /\ pc = "run"
    /\ runs = 1
    /\ CurLog = <<CallMove(7, 8, 9), Call0("home"), CallValue("move_x", 4)>>
    /\ Position(loc) = <<4, 0, 0>>

(***************************************************************************)
(* C16: a block line with whitespace or a comment inserted at any place,   *)
(* also inside a token, is parsed to the Block of the line without it; a   *)
(* line of whitespace and comments only gives no Block.                    *)
(***************************************************************************)
AfterParse == pc \in {"parsed", "raised"}

Decorated(line) == \E i \in 1..Len(line) : line[i] \in {" ", "(", ")"}

AsBlock(r) == [number |-> r.number, words |-> r.words]

C16_DecorationIgnored ==
    (AfterParse /\ Len(Lines) = 2 /\ Lines[1] = <<"%">> /\ Decorated(Lines[2])) =>
        \A b \in BaseLines : \A pos \in 0..Len(b) : \A ins \in Insertions :
            Lines[2] = Insert(b, pos, ins) =>
                /\ program.ok
                /\ program.blocks = IF Len(b) = 0 THEN <<>>
                                    ELSE <<AsBlock(BlockParse(b))>>

\* the line "G(a)1X4Y5", a comment inside the token G1, is parsed as "G1X4Y5"
C16_Witness ==
    /\ pc = "parsed"
    /\ Lines = << <<"%">>, <<"G", "(", "a", ")", "1", "X", "4", "Y", "5">> >>
    /\ Len(program.blocks) = 1
    /\ Len(program.blocks[1].words) = 3

(***************************************************************************)
(* C18: a comment left open ends with its line: the text is parsed as the  *)
(* text in which every open comment is closed at the end of its line, and  *)
(* the open comment hides the rest of its own line only.                   *)
(***************************************************************************)
ParenAt(line, c) == {i \in 1..Len(line) : line[i] = c}

\* the place of the "(" that opens the comment left open, 0 if there is none
OpenAt(line) ==
    LET after == {i \in ParenAt(line, "(") : \A j \in ParenAt(line, ")") : j < i}
    IN  IF after = {} THEN 0 ELSE CHOOSE i \in after : \A j \in after : i <= j

CloseLine(line) == IF OpenAt(line) > 0 THEN Append(line, ")") ELSE line

ClosedText == JoinLines([i \in 1..Len(Lines) |-> CloseLine(Lines[i])])

C18_CommentEndsWithLine ==
    (AfterParse /\ \E i \in 1..Len(Lines) : OpenAt(Lines[i]) > 0) =>
        /\ program = ProgramParse(ClosedText)
        /\ \A i \in 1..Len(Lines) :
              OpenAt(Lines[i]) > 0 =>
                 Stripped(i) = StripLine(SubSeq(Lines[i], 1, OpenAt(Lines[i]) - 1))

\* after "M6(a" the lines "O12" and "T1" are a directive and a Block
C18_Witness ==
    /\ pc = "parsed"
    /\ Lines = << <<"%">>, <<"M", "6", "(", "a">>, <<"O", "1", "2">>, <<"T", "1">> >>
    /\ program.number = 12
    /\ Len(program.blocks) = 2

Next ==
    \/ Parse
    \/ StartRun
    \/ Rerun
    \/ ExecWord
    \/ BlockReturn
    \/ RunReturn

Spec == Init /\ [][Next]_vars

NextMain ==
    \/ ParseFromFile
    \/ StartRun
    \/ ExecWord
    \/ BlockReturn
    \/ RunReturn
    \/ NextFile

SpecMain == InitMain /\ [][NextMain]_vars

====
